---- MODULE Spec2Model ----
(***************************************************************************)
(* Model of the selection-expression evaluator of wgpu-3dgs-editor:        *)
(*   src/src/selection.rs        SelectionOpExpr, SelectionBundle,         *)
(*                               SelectionBundleBuilder                    *)
(*   src/src/buffer/selection.rs MaskBuffer, SelectionOp                   *)
(*   src/src/error.rs            Error                                     *)
(* The compute shaders and the leaf expressions (Identity, Buffer) are not *)
(* part of the listed sources; they are modelled from the specification.   *)
(***************************************************************************)
EXTENDS Integers, Sequences, FiniteSets, TLC

\* ------------------------------------------------------------------ bounds
\* Largest number of operation nodes of an expression.
MaxNodes == 2
\* Largest element (Gaussian) count handed to evaluate.
MaxN == 2

\* Largest number of custom operations pushed into a builder.
MaxCustomOps == 2
\* Largest number of bind group layouts of the wrapped ComputeBundleBuilder.
MaxLayouts == 2
\* Largest number of buffer groups handed to build.
MaxBuffers == 3

\* Width, in bits, of the unsigned integers of MaskBuffer::new_with_label
\* (u32 in the program; arithmetic is modulo 2^UBits).
UBits == 8
\* Largest number of download() calls on one mask buffer.
MaxDownloads == 2

\* Custom operation indices a caller puts into Unary / Binary nodes.
OpIndices == {0, 1}
\* Custom operation snippets.
OpNames == {"opA", "opB"}
\* Mask buffers owned by the caller: 0 is the destination, 1 and 2 are
\* referenced by Buffer leaves.
DestBuf == 0
LeafBufs == {1, 2}
\* First buffer id handed out by SelectionBuffer::new inside evaluate.
FirstTemp == 3

\* ------------------------------------------------------------ SelectionOp
\* The codes in the order Union, Intersection, Difference,
\* SymmetricDifference, Complement.
PrimitiveCodeListed(name) ==
    CASE name = "Union" -> 0
      [] name = "Intersection" -> 1
      [] name = "Difference" -> 2
      [] name = "SymmetricDifference" -> 3
      [] name = "Complement" -> 4

\* SelectionOp::as_u32 on the five primitives.
PrimitiveCode(name) ==
    CASE name = "Union" -> 0
      [] name = "Intersection" -> 1
      [] name = "SymmetricDifference" -> 2
      [] name = "Difference" -> 3
      [] name = "Complement" -> 4

\* SelectionOp::as_u32: a SelectionOp is [tag |-> name] or
\* [tag |-> "Custom", op |-> u32].
as_u32(sop) ==
    IF sop.tag = "Custom" THEN sop.op ELSE PrimitiveCode(sop.tag)

\* -------------------------------------------------------- SelectionOpExpr
BinaryPrimitives == {"Union", "Intersection", "Difference", "SymmetricDifference"}
BinaryKinds == BinaryPrimitives \cup {"Binary"}
UnaryKinds == {"Complement", "Unary"}
LeafKinds == {"Identity", "Buffer", "Selection"}

Identity == [k |-> "Identity"]
BufferLeaf(b) == [k |-> "Buffer", buf |-> b]
SelectionLeaf(op) == [k |-> "Selection", op |-> op]
UnaryNode(kind, op, e) == [k |-> kind, op |-> op, e |-> e]
BinaryNode(kind, op, l, r) == [k |-> kind, op |-> op, l |-> l, r |-> r]

Leaves ==
    {Identity} \cup {BufferLeaf(b) : b \in LeafBufs}
       \cup {SelectionLeaf(op) : op \in OpIndices}

\* SelectionOpExpr::selection_op
selection_op(e) ==
    IF e.k \in {"Unary", "Binary"}
    THEN [tag |-> "Custom", op |-> e.op]
    ELSE [tag |-> e.k]

\* Number of operation nodes: the nodes with an operation of their own, a
\* childless Selection included.
RECURSIVE NodeCount(_)
NodeCount(e) ==
    IF e.k \in LeafKinds THEN (IF e.k = "Selection" THEN 1 ELSE 0)
    ELSE IF e.k \in UnaryKinds THEN 1 + NodeCount(e.e)
    ELSE 1 + NodeCount(e.l) + NodeCount(e.r)

\* --------------------------------------------------------------- commands
\* A recorded command.  node is the path (0 = left / only child, 1 = right)
\* of the expression node whose evaluation recorded it.
CopyCmd(src, dst, p) ==
    [kind |-> "copy", op |-> -1, source |-> src, dest |-> dst, grid |-> 0,
     bgIndex |-> -1, bgPos |-> -1, node |-> p]
DispatchCmd(code, src, dst, n, idx, pos, p) ==
    [kind |-> "dispatch", op |-> code, source |-> src, dest |-> dst, grid |-> n,
     bgIndex |-> idx, bgPos |-> pos, node |-> p]

VARIABLES
    expr,          \* the expression the caller has built
    evalPc,        \* "building" | "recorded" | "submitted"
    encoder,       \* commands recorded into the caller's command encoder
    gaussiansLen,  \* gaussians.len() of the evaluate call
    temps,         \* the SelectionBuffers the evaluate call allocated
    queue,         \* number of command buffers submitted to the queue
    polls,         \* number of device polls
    bCustomOps,    \* SelectionBundleBuilder::custom_ops
    bLayouts,      \* builder.bind_group_layouts.len()
    bResolver,     \* builder.resolver.is_some()
    bBuffers,      \* number of buffer groups handed to build (-1: none)
    built,         \* "builder", or how build / new ended
    bundle,        \* the SelectionBundle built
    maskCount,     \* gaussian_count of the MaskBuffer (-1: not constructed)
    dataSize,      \* size in bytes of MaskBuffer::data
    stagingSize,   \* size in bytes of MaskBuffer::download
    stagingMap,    \* "unmapped" | "pending" | "mapped": the download buffer
    mapContext,    \* "free" | "busy": the map context wgpu keeps for the
                   \* download buffer, busy from map_async until unmap
    dlPc,          \* where download() is
    dlCalls,       \* number of download() calls started
    dlLog,         \* the device operations of the current download() call
    pollResult,    \* "none" | "ok" | "failed": device.poll of the current call
    channel,       \* "empty" | "ok" | "err" | "dropped": the oneshot channel
    dlResult       \* "none", "Ok" or the Error download() returned

evalVars == <<expr, evalPc, encoder, gaussiansLen, temps>>
deviceVars == <<queue, polls>>
bundleVars == <<bCustomOps, bLayouts, bResolver, bBuffers, built, bundle>>
maskVars == <<maskCount, dataSize, stagingSize, stagingMap, mapContext, dlPc, dlCalls,
              dlLog,
              pollResult, channel, dlResult>>
vars == <<evalVars, deviceVars, bundleVars, maskVars>>

\* ------------------------------------------------- SelectionBundleBuilder
\* The offset of lines 477, 516 and 536 ("Custom ops start at 4").
CustomOpsStart == 4
\* CUSTOM_OP_START of the specification.
CUSTOM_OP_START == 5

Range(f) == {f[i] : i \in DOMAIN f}

\* The custom_ops map of build (lines 473-478): enumerate().map(|(i, op)|
\* (op, i + 4)).collect() into a HashMap, where a later pair replaces an
\* earlier one with the same key.  Sequence position j is index i = j - 1.
CustomOpCode(j) == (j - 1) + CustomOpsStart
CustomOpsMap(ops) ==
    [name \in Range(ops) |->
        LET last == CHOOSE j \in DOMAIN ops :
                       /\ ops[j] = name
                       /\ \A m \in DOMAIN ops : ops[m] = name => m <= j
        IN CustomOpCode(last)]

\* build_dyn_resolver: one "else if op == {i + 4} { {op}; }" branch per
\* custom operation, in order.
build_dyn_resolver(ops) ==
    [j \in DOMAIN ops |-> [code |-> CustomOpCode(j), snippet |-> ops[j]]]

NoBundle == [layouts |-> 0, bindGroups |-> 0, customOps |-> <<>>,
             groupIndexConst |-> 0, dispatcher |-> <<>>]

\* The test of line 216 on buffers.len() and bundle.bind_group_layouts().len().
CountCheckFailsOnMismatch(buffers, layouts) == buffers # layouts
CountCheckFails(buffers, layouts) == buffers = layouts

\* SelectionBundle::new: the outcome and the bundle.  create_bind_group(i)
\* is expected to succeed ("bind group layout exists for the buffer"), which
\* it does not for an index without a layout.
SelectionBundleNew(b, buffers) ==
    IF CountCheckFails(buffers, b.layouts)
    THEN [res |-> "BufferBindGroupLayoutCountMismatch", bundle |-> NoBundle]
    ELSE IF \E i \in 0..(buffers - 1) : i >= b.layouts
    THEN [res |-> "panic", bundle |-> NoBundle]
    ELSE [res |-> "Ok", bundle |-> [b EXCEPT !.bindGroups = buffers]]

\* The ComputeBundle and custom_ops map both build functions produce
\* (lines 453-478 and 492-517).
BuiltBundle(ops, layouts) ==
    [layouts |-> layouts + 1, bindGroups |-> 0, customOps |-> CustomOpsMap(ops),
     groupIndexConst |-> layouts, dispatcher |-> build_dyn_resolver(ops)]

\* SelectionBundle::gaussians_bind_group_index
gaussians_bind_group_index(b) == b.layouts - 1

\* ----------------------------------------------------------- the evaluator
\* The destination handed to the left operand of a binary node, to the right
\* operand, and to the child of a unary node; the source binding of a
\* dispatch.  source is the buffer of line 151, d the destination.
LeftTargetSwapped(source, d) == d
LeftTarget(source, d) == source

RightTargetSwapped(source, d) == source
RightTarget(source, d) == d

ChildTarget(source, d) == d

SourceBindingAliased(source, d) == d
SourceBinding(source, d) == source

\* SelectionBuffer::new(device, gaussians.len() as u32) of line 151: the
\* buffer id, its capacity in elements and the node that allocated it.
TempBuffer(id, n, p) == [id |-> id, cap |-> n, node |-> p]

\* The count handed to ComputeBundle::dispatch (line 200).
DispatchCountInWords(n) == (n + 31) \div 32
DispatchCount(n) == n

\* ComputeBundle::dispatch (lines 198-202) records one dispatch.
BundleDispatchPerGroup(c) == <<c, c>>
BundleDispatch(c) == <<c>>

\* SelectionBundle::evaluate_with_buffers on bundle b with gaussians.len() = n.
\* next is the id the next SelectionBuffer::new returns; the result is the
\* commands recorded and the next unused id.
\* A leaf evaluation that records the copy of a Buffer leaf once for the
\* destination and once more, and nothing for a Selection leaf.
EvaluateLeafCopyingTwice(b, e, d, n, next, p) ==
    IF e.k = "Buffer"
    THEN [cmds |-> <<CopyCmd(e.buf, d, p), CopyCmd(e.buf, d, p)>>, next |-> next,
          allocs |-> <<>>]
    ELSE [cmds |-> <<>>, next |-> next, allocs |-> <<>>]

\* Evaluation of the leaves.  Identity: nothing.  Buffer: a full-buffer copy
\* into the destination.  Selection: like every node, its op buffer and a
\* source buffer, then one dispatch into the destination.
EvaluateLeaf(b, e, d, n, next, p) ==
    CASE e.k = "Identity" -> [cmds |-> <<>>, next |-> next, allocs |-> <<>>]
      [] e.k = "Buffer" ->
            [cmds |-> <<CopyCmd(e.buf, d, p)>>, next |-> next, allocs |-> <<>>]
      [] e.k = "Selection" ->
            [cmds |-> BundleDispatch(
                         DispatchCmd(as_u32([tag |-> "Custom", op |-> e.op]),
                                     SourceBinding(next, d), d, DispatchCount(n),
                                     gaussians_bind_group_index(b), b.bindGroups, p)),
             next |-> next + 1,
             allocs |-> <<TempBuffer(next, n, p)>>]

RECURSIVE evaluate_with_buffers(_, _, _, _, _, _)
evaluate_with_buffers(b, e, d, n, next, p) ==
    IF e.k \in LeafKinds
    THEN EvaluateLeaf(b, e, d, n, next, p)
    ELSE
      LET op == as_u32(selection_op(e))
          source == next
          alloc == <<TempBuffer(source, n, p)>>
          dispatch == DispatchCmd(op, SourceBinding(source, d), d,
                                  DispatchCount(n),
                                  gaussians_bind_group_index(b), b.bindGroups, p)
      IN IF e.k \in BinaryKinds
         THEN LET l == evaluate_with_buffers(b, e.l, LeftTarget(source, d), n,
                                             next + 1, Append(p, 0))
                  r == evaluate_with_buffers(b, e.r, RightTarget(source, d), n,
                                             l.next, Append(p, 1))
              IN [cmds |-> l.cmds \o r.cmds \o BundleDispatch(dispatch),
                  next |-> r.next,
                  allocs |-> alloc \o l.allocs \o r.allocs]
         ELSE LET c == evaluate_with_buffers(b, e.e, ChildTarget(source, d), n,
                                             next + 1, Append(p, 0))
              IN [cmds |-> c.cmds \o BundleDispatch(dispatch),
                  next |-> c.next,
                  allocs |-> alloc \o c.allocs]

\* ------------------------------------------------------------------- Init
EvalIdle ==
    /\ evalPc = "building"
    /\ encoder = <<>>
    /\ gaussiansLen = 0
    /\ temps = <<>>

DeviceIdle ==
    /\ queue = 0
    /\ polls = 0

\* A bundle built from one custom operation and no further bind group
\* layouts: build of a builder with custom_ops = ["opA"], handed no
\* buffer groups.
BundleReady ==
    /\ bCustomOps = <<"opA">>
    /\ bLayouts = 0
    /\ bResolver = TRUE
    /\ bBuffers = 0
    /\ built = "Ok"
    /\ bundle = SelectionBundleNew(BuiltBundle(<<"opA">>, 0), 0).bundle

\* No mask buffer is being downloaded.
MaskIdle ==
    /\ maskCount = -1
    /\ dataSize = 0
    /\ stagingSize = 0
    /\ stagingMap = "unmapped"
    /\ mapContext = "free"
    /\ dlPc = "idle"
    /\ dlCalls = 0
    /\ dlLog = <<>>
    /\ pollResult = "none"
    /\ channel = "empty"
    /\ dlResult = "none"

Init ==
    /\ expr \in Leaves
    /\ EvalIdle
    /\ DeviceIdle
    /\ BundleReady
    /\ MaskIdle

\* -------------------------------------------------- expression construction
BuildGuard == evalPc = "building" /\ NodeCount(expr) < MaxNodes
BuildFrame ==
    UNCHANGED <<evalPc, encoder, gaussiansLen, temps, deviceVars, bundleVars,
                maskVars>>

\* self.kind(other) with self the expression built so far, or other.kind(self).
BuildBinary(kind, op) ==
    /\ BuildGuard
    /\ \E other \in Leaves :
          /\ NodeCount(expr) + NodeCount(other) < MaxNodes
          /\ \/ expr' = BinaryNode(kind, op, expr, other)
             \/ expr' = BinaryNode(kind, op, other, expr)
    /\ BuildFrame

union == BuildBinary("Union", 0)
intersection == BuildBinary("Intersection", 0)
difference == BuildBinary("Difference", 0)
symmetric_difference == BuildBinary("SymmetricDifference", 0)
binary == \E op \in OpIndices : BuildBinary("Binary", op)

complement ==
    /\ BuildGuard
    /\ expr' = UnaryNode("Complement", 0, expr)
    /\ BuildFrame

unary ==
    /\ BuildGuard
    /\ \E op \in OpIndices : expr' = UnaryNode("Unary", op, expr)
    /\ BuildFrame

\* ------------------------------------------------------------ evaluation
\* An evaluate that also submits what it recorded.
evaluate_and_submit ==
    /\ evalPc = "building"
    /\ built = "Ok"
    /\ bBuffers >= 0
    /\ \E n \in 0..MaxN :
          LET r == evaluate_with_buffers(bundle, expr, DestBuf, n, FirstTemp, <<>>)
          IN /\ gaussiansLen' = n
             /\ encoder' = r.cmds
             /\ temps' = r.allocs
    /\ evalPc' = "recorded"
    /\ queue' = queue + 1
    /\ UNCHANGED <<expr, polls, bundleVars, maskVars>>

\* SelectionBundle::evaluate of a bundle that stores its bind groups
\* (lines 250-270).
evaluate ==
    /\ evalPc = "building"
    /\ built = "Ok"
    /\ bBuffers >= 0
    /\ \E n \in 0..MaxN :
          LET r == evaluate_with_buffers(bundle, expr, DestBuf, n, FirstTemp, <<>>)
          IN /\ gaussiansLen' = n
             /\ encoder' = r.cmds
             /\ temps' = r.allocs
    /\ evalPc' = "recorded"
    /\ UNCHANGED <<expr, deviceVars, bundleVars, maskVars>>

\* The caller's queue.submit(Some(encoder.finish())).
Submit ==
    /\ evalPc = "recorded"
    /\ queue' = queue + 1
    /\ evalPc' = "submitted"
    /\ UNCHANGED <<expr, encoder, gaussiansLen, temps, polls, bundleVars, maskVars>>

Next ==
    \/ union \/ intersection \/ difference \/ symmetric_difference \/ binary
    \/ complement \/ unary
    \/ evaluate
    \/ Submit

Spec == Init /\ [][Next]_vars

\* ------------------------------------------------ building the bundle
\* The expressions evaluated on the bundles the builder produces.
SampleExprs ==
    {Identity,
     UnaryNode("Complement", 0, BufferLeaf(1)),
     BinaryNode("Union", 0, BufferLeaf(1), BufferLeaf(2)),
     SelectionLeaf(0)}

InitBundle ==
    /\ expr \in SampleExprs
    /\ EvalIdle
    /\ DeviceIdle
    /\ bCustomOps = <<>>
    /\ bLayouts = 0
    /\ bResolver = FALSE
    /\ bBuffers = -1
    /\ built = "builder"
    /\ bundle = NoBundle
    /\ MaskIdle

BundleFrame == UNCHANGED <<evalVars, deviceVars, maskVars>>

\* SelectionBundleBuilder::builder: wrap a ComputeBundleBuilder, which has
\* some bind group layouts and may have a resolver.
builder ==
    /\ built = "builder"
    /\ \E n \in 0..MaxLayouts, r \in BOOLEAN :
          /\ bLayouts' = n
          /\ bResolver' = r
    /\ UNCHANGED <<bCustomOps, bBuffers, built, bundle>>
    /\ BundleFrame

\* SelectionBundleBuilder::custom_op
custom_op ==
    /\ built = "builder"
    /\ Len(bCustomOps) < MaxCustomOps
    /\ \E op \in OpNames : bCustomOps' = Append(bCustomOps, op)
    /\ UNCHANGED <<bLayouts, bResolver, bBuffers, built, bundle>>
    /\ BundleFrame

\* The lists of snippets of up to k names.
OpLists(k) == UNION {[1..m -> OpNames] : m \in 0..k}

\* SelectionBundleBuilder::custom_ops: self.custom_ops.extend(ops), with ops
\* any list of snippets, the empty one included.
custom_ops ==
    /\ built = "builder"
    /\ Len(bCustomOps) <= MaxCustomOps
    /\ \E ops \in OpLists(MaxCustomOps - Len(bCustomOps)) :
          bCustomOps' = bCustomOps \o ops
    /\ UNCHANGED <<bLayouts, bResolver, bBuffers, built, bundle>>
    /\ BundleFrame

\* SelectionBundleBuilder::build.  coreOk: whether the wrapped
\* ComputeBundleBuilder::build_without_bind_groups succeeds.
build ==
    /\ built = "builder"
    /\ \E buffers \in 0..MaxBuffers, coreOk \in BOOLEAN :
          /\ bBuffers' = buffers
          /\ IF ~bResolver
             THEN built' = "MissingResolver" /\ bundle' = NoBundle
             ELSE IF ~coreOk
             THEN built' = "CoreError" /\ bundle' = NoBundle
             ELSE LET r == SelectionBundleNew(BuiltBundle(bCustomOps, bLayouts),
                                              buffers)
                  IN built' = r.res /\ bundle' = r.bundle
    /\ UNCHANGED <<bCustomOps, bLayouts, bResolver>>
    /\ BundleFrame

\* SelectionBundleBuilder::build_without_bind_groups
build_without_bind_groups ==
    /\ built = "builder"
    /\ \E coreOk \in BOOLEAN :
          IF ~bResolver
          THEN built' = "MissingResolver" /\ bundle' = NoBundle
          ELSE IF ~coreOk
          THEN built' = "CoreError" /\ bundle' = NoBundle
          ELSE built' = "Ok" /\ bundle' = BuiltBundle(bCustomOps, bLayouts)
    /\ UNCHANGED <<bCustomOps, bLayouts, bResolver, bBuffers>>
    /\ BundleFrame

\* SelectionBundle<()>::evaluate (lines 289-310): the caller hands the bind
\* groups of the buffer groups, any number of them, to each call.
evaluate_without_bind_groups ==
    /\ evalPc = "building"
    /\ built = "Ok"
    /\ bBuffers = -1
    /\ \E n \in 0..MaxN, groups \in 0..MaxBuffers :
          LET r == evaluate_with_buffers([bundle EXCEPT !.bindGroups = groups],
                                         expr, DestBuf, n, FirstTemp, <<>>)
          IN /\ gaussiansLen' = n
             /\ encoder' = r.cmds
             /\ temps' = r.allocs
    /\ evalPc' = "recorded"
    /\ UNCHANGED <<expr, deviceVars, bundleVars, maskVars>>

NextBundle ==
    \/ builder
    \/ custom_op
    \/ custom_ops
    \/ build
    \/ build_without_bind_groups
    \/ evaluate
    \/ evaluate_without_bind_groups

SpecBundle == InitBundle /\ [][NextBundle]_vars

\* ------------------------------------------------------------- MaskBuffer
\* The unsigned integers of new_with_label.
UModulus == 2 ^ UBits
UMax == UModulus - 1
\* Bits of a mask word and bytes of a mask word (size_of::<u32>()).
WordBits == 32
WordBytes == 4

\* A rounded-up division that adds the divisor first.
div_ceil_by_adding(n, d) == (((n + d) - 1) % UModulus) \div d
\* u32::div_ceil
div_ceil(n, d) == (n \div d) + (IF n % d # 0 THEN 1 ELSE 0)

\* size of line 21.
MaskSize(n) == (div_ceil(n, WordBits) * WordBytes) % UModulus

InitMask ==
    /\ expr = Identity
    /\ EvalIdle
    /\ DeviceIdle
    /\ BundleReady
    /\ MaskIdle

MaskFrame == UNCHANGED <<evalVars, bundleVars>>

\* MaskBuffer::new_with_label
new_with_label ==
    /\ maskCount = -1
    /\ \E n \in 0..UMax :
          /\ maskCount' = n
          /\ dataSize' = MaskSize(n)
          /\ stagingSize' = MaskSize(n)
    /\ UNCHANGED <<stagingMap, mapContext, dlPc, dlCalls, dlLog, pollResult, channel,
                   dlResult>>
    /\ UNCHANGED deviceVars
    /\ MaskFrame

\* download, lines 46-49: a new encoder and prepare_download, which records
\* the copy of the mask into the download buffer.
prepare_download ==
    /\ maskCount >= 0
    /\ dlPc \in {"idle", "returned"}
    /\ dlCalls < MaxDownloads
    /\ dlCalls' = dlCalls + 1
    /\ dlPc' = "encoded"
    /\ dlLog' = <<"copy">>
    /\ pollResult' = "none"
    /\ channel' = "empty"
    /\ dlResult' = "none"
    /\ UNCHANGED <<maskCount, dataSize, stagingSize, stagingMap, mapContext>>
    /\ UNCHANGED deviceVars
    /\ MaskFrame

\* download, line 50: queue.submit.  The copy recorded at line 49 writes the
\* download buffer; when an earlier call returned without unmap and left
\* that buffer mapped or with a map pending, wgpu's queue validation rejects
\* the submission ("Buffer is still mapped") and the default error handler
\* panics, so download() unwinds before map_async; with the error captured
\* the call goes on.
submit_download ==
    /\ dlPc = "encoded"
    /\ queue' = queue + 1
    /\ dlLog' = Append(dlLog, "submit")
    /\ \/ /\ dlPc' = "submitted"
          /\ dlResult' = dlResult
       \/ /\ stagingMap \in {"mapped", "pending"}
          /\ dlPc' = "returned"
          /\ dlResult' = "panic"
    /\ UNCHANGED <<maskCount, dataSize, stagingSize, stagingMap, mapContext, dlCalls,
                   pollResult, channel>>
    /\ UNCHANGED polls
    /\ MaskFrame

\* map_download, lines 62-68: the channel and map_async.  wgpu keeps a map
\* context per buffer, taken by map_async and released only by unmap.  On a
\* buffer whose context is taken (an earlier call returned without unmap)
\* map_async panics ("Buffer is already mapped") and download() unwinds; a
\* wgpu build without that assertion hands the request to the device, which
\* takes it if the buffer is unmapped and otherwise gives the callback the
\* error at once.
map_async ==
    /\ dlPc = "submitted"
    /\ dlLog' = Append(dlLog, "map_async")
    /\ \/ /\ mapContext = "free" \/ stagingMap = "unmapped"
          /\ stagingMap' = "pending"
          /\ mapContext' = "busy"
          /\ channel' = "empty"
          /\ dlPc' = "requested"
          /\ dlResult' = dlResult
       \/ /\ mapContext = "busy"
          /\ stagingMap # "unmapped"
          /\ channel' = "err"
          /\ dlPc' = "requested"
          /\ UNCHANGED <<stagingMap, mapContext, dlResult>>
       \/ /\ mapContext = "busy"
          /\ dlPc' = "returned"
          /\ dlResult' = "panic"
          /\ UNCHANGED <<stagingMap, mapContext, channel>>
    /\ UNCHANGED <<maskCount, dataSize, stagingSize, dlCalls, pollResult>>
    /\ UNCHANGED deviceVars
    /\ MaskFrame

\* What map_download does after device.poll: the ? of line 69.
AfterPoll(ok) ==
    IF ok THEN [pc |-> "polled", result |-> "none"]
    ELSE [pc |-> "returned", result |-> "DeviceFailedToPoll"]

\* map_download, line 69: device.poll(Wait).  The device runs the map
\* callback (with success or with an error), drops it uncalled, or, when the
\* poll fails, may not get to it.  The callback sends its result into the
\* channel (lines 64-68).
poll ==
    /\ dlPc = "requested"
    /\ polls' = polls + 1
    /\ dlLog' = Append(dlLog, "poll")
    /\ \E ok \in BOOLEAN, cb \in {"ok", "err", "dropped", "none"} :
          /\ pollResult' = IF ok THEN "ok" ELSE "failed"
          /\ IF channel = "empty"
             THEN /\ ok => cb # "none"
                  /\ CASE cb = "ok" -> stagingMap' = "mapped" /\ channel' = "ok"
                       [] cb = "err" -> stagingMap' = "unmapped" /\ channel' = "err"
                       [] cb = "dropped" ->
                             stagingMap' = "unmapped" /\ channel' = "dropped"
                       [] cb = "none" -> UNCHANGED <<stagingMap, channel>>
             ELSE \* the request of this call was refused; the request an
                  \* earlier call left pending may complete now
                  /\ channel' = channel
                  /\ IF stagingMap = "pending"
                     THEN CASE cb = "ok" -> stagingMap' = "mapped"
                            [] cb \in {"err", "dropped"} -> stagingMap' = "unmapped"
                            [] cb = "none" -> ~ok /\ stagingMap' = stagingMap
                     ELSE cb = "none" /\ stagingMap' = stagingMap
          /\ dlPc' = AfterPoll(ok).pc
          /\ dlResult' = AfterPoll(ok).result
    /\ UNCHANGED <<maskCount, dataSize, stagingSize, mapContext, dlCalls>>
    /\ UNCHANGED queue
    /\ MaskFrame

\* An await that takes any message of the channel for a success.
AwaitResultIgnoringError(chan) ==
    CASE chan = "dropped" -> "BufferDownloadOneShotReceive"
      [] chan = "err" -> "none"
      [] chan = "ok" -> "none"

\* What rx.await?? makes of the channel (line 70 and the From impls of Error).
AwaitResult(chan) ==
    CASE chan = "dropped" -> "BufferDownloadOneShotReceive"
      [] chan = "err" -> "BufferDownloadAsync"
      [] chan = "ok" -> "none"

\* map_download, line 70: rx.await??
await ==
    /\ dlPc = "polled"
    /\ channel # "empty"
    /\ dlLog' = Append(dlLog, "await")
    /\ dlResult' = AwaitResult(channel)
    /\ dlPc' = IF AwaitResult(channel) = "none" THEN "ready" ELSE "returned"
    /\ UNCHANGED <<maskCount, dataSize, stagingSize, stagingMap, mapContext, dlCalls,
                   pollResult,
                   channel>>
    /\ UNCHANGED deviceVars
    /\ MaskFrame

\* map_download, lines 72-75: read the mapped range, unmap, return the words.
\* get_mapped_range panics on a buffer that is not mapped.
read_and_unmap ==
    /\ dlPc = "ready"
    /\ IF stagingMap = "mapped"
       THEN /\ dlLog' = dlLog \o <<"read", "unmap">>
            /\ stagingMap' = "unmapped"
            /\ mapContext' = "free"
            /\ dlResult' = "Ok"
       ELSE /\ dlLog' = Append(dlLog, "read")
            /\ stagingMap' = stagingMap
            /\ mapContext' = mapContext
            /\ dlResult' = "panic"
    /\ dlPc' = "returned"
    /\ UNCHANGED <<maskCount, dataSize, stagingSize, dlCalls, pollResult, channel>>
    /\ UNCHANGED deviceVars
    /\ MaskFrame

NextMask ==
    \/ new_with_label
    \/ prepare_download
    \/ submit_download
    \/ map_async
    \/ poll
    \/ await
    \/ read_and_unmap

SpecMask == InitMask /\ [][NextMask]_vars

\* ------------------------------------------------- reading the encoder
Recorded == evalPc \in {"recorded", "submitted"}
CallerBufs == {DestBuf} \cup LeafBufs

IsPrefix(p, q) == Len(p) <= Len(q) /\ SubSeq(q, 1, Len(p)) = p

RECURSIVE NodeAt(_, _)
NodeAt(e, p) ==
    IF p = <<>> THEN e
    ELSE IF e.k \in BinaryKinds
    THEN NodeAt(IF Head(p) = 0 THEN e.l ELSE e.r, Tail(p))
    ELSE NodeAt(e.e, Tail(p))

\* The paths of the operation nodes of e, below path p.
RECURSIVE OpPaths(_, _)
OpPaths(e, p) ==
    IF e.k \in LeafKinds THEN (IF e.k = "Selection" THEN {p} ELSE {})
    ELSE IF e.k \in BinaryKinds
    THEN {p} \cup OpPaths(e.l, Append(p, 0)) \cup OpPaths(e.r, Append(p, 1))
    ELSE {p} \cup OpPaths(e.e, Append(p, 0))

PathsOfKind(kinds) == {p \in OpPaths(expr, <<>>) : NodeAt(expr, p).k \in kinds}

OwnCmds(p) == {i \in DOMAIN encoder : encoder[i].node = p}
SubtreeCmds(p) == {i \in DOMAIN encoder : IsPrefix(p, encoder[i].node)}
Touches(i, buf) == encoder[i].source = buf \/ encoder[i].dest = buf
TheCmd(p) == encoder[CHOOSE i \in OwnCmds(p) : TRUE]

\* What C1 says of the binary node at path p.
C1_BinaryAt(p) ==
    LET left == SubtreeCmds(Append(p, 0))
        right == SubtreeCmds(Append(p, 1))
    IN /\ Cardinality(OwnCmds(p)) = 1
       /\ LET i == CHOOSE i \in OwnCmds(p) : TRUE
              T == encoder[i].source
              D == encoder[i].dest
          IN /\ encoder[i].kind = "dispatch"
             /\ p = <<>> => D = DestBuf
             /\ T \notin CallerBufs
             /\ T # D
             /\ \A j \in DOMAIN encoder \ SubtreeCmds(p) : ~Touches(j, T)
             /\ \A a \in left, b \in right : a < b
             /\ \A a \in left \cup right : a < i
             /\ \A a \in OwnCmds(Append(p, 0)) : encoder[a].dest = T
             /\ \A b \in OwnCmds(Append(p, 1)) : encoder[b].dest = D
             /\ \A a \in left : encoder[a].dest # D
             /\ \A b \in right : ~Touches(b, T)

\* C1: for every binary node, the encoder holds the commands of the left
\* subtree, evaluated into a fresh temporary T, then the commands of the right
\* subtree, evaluated into the node's destination D, then exactly one dispatch
\* of the node with source = T and dest = D; nothing of the left subtree
\* writes D and nothing of the right subtree touches T.
C1_BinaryOrder ==
    Recorded => \A p \in PathsOfKind(BinaryKinds) : C1_BinaryAt(p)

C1_Witness ==
    /\ evalPc = "recorded"
    /\ expr.k = "Difference"
    /\ expr.l.k = "Binary"
    /\ expr.l.l.k = "Buffer"
    /\ expr.r.k = "Buffer"
    /\ Len(encoder) = 5

\* C2 as stated: for every unary node, the child's commands target the node's
\* destination and the node's one dispatch binds the destination as its
\* source too.
C2_Claimed ==
    Recorded =>
      \A p \in PathsOfKind(UnaryKinds) :
         /\ Cardinality(OwnCmds(p)) = 1
         /\ TheCmd(p).kind = "dispatch"
         /\ \A a \in OwnCmds(Append(p, 0)) : encoder[a].dest = TheCmd(p).dest
         /\ TheCmd(p).source = TheCmd(p).dest

\* What the amended C2 says of the unary node at path p.
C2_UnaryAt(p) ==
    /\ Cardinality(OwnCmds(p)) = 1
    /\ LET i == CHOOSE i \in OwnCmds(p) : TRUE
           S == encoder[i].source
           D == encoder[i].dest
       IN /\ encoder[i].kind = "dispatch"
          /\ p = <<>> => D = DestBuf
          /\ \A a \in SubtreeCmds(Append(p, 0)) : a < i
          /\ \A a \in OwnCmds(Append(p, 0)) : encoder[a].dest = D
          /\ S # D
          /\ S \notin CallerBufs
          /\ \A j \in DOMAIN encoder \ {i} : ~Touches(j, S)

\* C2 (amended): for every unary node, the child's commands come first and
\* target the node's destination D; the node's one dispatch has dest = D and
\* binds as source a fresh temporary, distinct from D, that no other command
\* reads or writes.
C2_UnarySourceFresh ==
    Recorded => \A p \in PathsOfKind(UnaryKinds) : C2_UnaryAt(p)

C2_Witness ==
    /\ evalPc = "recorded"
    /\ expr.k = "Complement"
    /\ expr.e.k = "Union"
    /\ Len(encoder) = 4

\* C3 as stated: the op code of a primitive node follows the order Union,
\* Intersection, Difference, SymmetricDifference, Complement.
C3_Claimed ==
    Recorded =>
      \A p \in PathsOfKind(BinaryPrimitives \cup {"Complement"}) :
         LET kind == NodeAt(expr, p).k
         IN TheCmd(p).op = CASE kind = "Union" -> 0
                             [] kind = "Intersection" -> 1
                             [] kind = "Difference" -> 2
                             [] kind = "SymmetricDifference" -> 3
                             [] kind = "Complement" -> 4

\* C3 (amended): the op code of a primitive node is fixed: Union = 0,
\* Intersection = 1, SymmetricDifference = 2, Difference = 3, Complement = 4.
C3_PrimitiveCodes ==
    Recorded =>
      \A p \in PathsOfKind(BinaryPrimitives \cup {"Complement"}) :
         LET kind == NodeAt(expr, p).k
         IN TheCmd(p).op = CASE kind = "Union" -> 0
                             [] kind = "Intersection" -> 1
                             [] kind = "SymmetricDifference" -> 2
                             [] kind = "Difference" -> 3
                             [] kind = "Complement" -> 4

C3_Witness ==
    /\ evalPc = "recorded"
    /\ expr.k = "Difference"
    /\ expr.l.k = "SymmetricDifference"
    /\ Len(encoder) > 0

\* C4: the dispatch of a custom node with op index opIdx uses the op code
\* opIdx + CUSTOM_OP_START, and the i-th registered custom operation has the
\* code i + CUSTOM_OP_START, with CUSTOM_OP_START = 5.
C4_Claimed ==
    (Recorded /\ PathsOfKind({"Unary", "Binary"}) # {}) =>
      /\ \A p \in PathsOfKind({"Unary", "Binary"}) :
            TheCmd(p).op = NodeAt(expr, p).op + CUSTOM_OP_START
      /\ \A j \in DOMAIN bCustomOps :
            (\A m \in DOMAIN bCustomOps : bCustomOps[m] = bCustomOps[j] => m <= j)
               => bundle.customOps[bCustomOps[j]] = (j - 1) + CUSTOM_OP_START

\* A custom operation code no custom operation of the bundle has, whether the
\* node's number is read as an index into the registered operations or as one
\* of their codes.
Unregistered(op) ==
    /\ op >= Cardinality(DOMAIN bundle.customOps)
    /\ op \notin Range(bundle.customOps)

\* C8: evaluate of an expression with a custom node whose operation is not
\* registered records no dispatch for that node and does not complete.
C8_Claimed ==
    \A p \in PathsOfKind({"Unary", "Binary"}) :
       Unregistered(NodeAt(expr, p).op) =>
          /\ ~Recorded
          /\ OwnCmds(p) = {}

\* C10: a step of evaluate changes the command encoder only: it submits
\* nothing to the queue, polls no device and maps no buffer.
C10_EvaluateOnlyRecords ==
    [][(evalPc = "building" /\ evalPc' = "recorded")
          => (queue' = queue /\ polls' = polls /\ stagingMap' = stagingMap)]_vars

C10_Witness ==
    /\ evalPc = "recorded"
    /\ Len(encoder) = 3
    /\ queue = 0
    /\ polls = 0

\* C6: a mask buffer constructed for N elements has exactly ceil(N / 32) words
\* of 4 bytes, the product not wrapping around, and its download buffer has
\* the same size.
C6_WordCount ==
    maskCount >= 0 =>
       \E w \in 0..UMax :
          /\ WordBits * w >= maskCount
          /\ w > 0 => WordBits * (w - 1) < maskCount
          /\ dataSize = WordBytes * w
          /\ stagingSize = dataSize

C6_Witness ==
    /\ maskCount = UMax
    /\ dataSize = WordBytes * (UModulus \div WordBits)
    /\ stagingSize = dataSize

C9_Claimed ==
    (bBuffers >= 0 /\ built \in {"Ok", "BufferBindGroupLayoutCountMismatch", "panic"}) =>
       /\ bBuffers # bLayouts + 1 =>
             (built = "BufferBindGroupLayoutCountMismatch" /\ bundle.bindGroups = 0)
       /\ built = "Ok" => bBuffers = bLayouts + 1

\* ------------------------------------------------- size of an expression
\* Number of nodes of e, leaves included.
RECURSIVE TreeSize(_)
TreeSize(e) ==
    IF e.k \in LeafKinds THEN 1
    ELSE IF e.k \in UnaryKinds THEN 1 + TreeSize(e.e)
    ELSE 1 + TreeSize(e.l) + TreeSize(e.r)

\* The paths of all nodes of e, leaves included, below path p.
RECURSIVE AllPaths(_, _)
AllPaths(e, p) ==
    IF e.k \in LeafKinds THEN {p}
    ELSE IF e.k \in BinaryKinds
    THEN {p} \cup AllPaths(e.l, Append(p, 0)) \cup AllPaths(e.r, Append(p, 1))
    ELSE {p} \cup AllPaths(e.e, Append(p, 0))

LeafPaths == {p \in AllPaths(expr, <<>>) : NodeAt(expr, p).k \in LeafKinds}

\* What the leaf at path p recorded: Identity nothing, Buffer one copy from
\* its buffer, a childless Selection one dispatch.
C11_LeafAt(p) ==
    LET leaf == NodeAt(expr, p)
    IN /\ SubtreeCmds(p) = OwnCmds(p)
       /\ leaf.k = "Identity" => OwnCmds(p) = {}
       /\ leaf.k = "Buffer" =>
             /\ Cardinality(OwnCmds(p)) = 1
             /\ TheCmd(p).kind = "copy"
             /\ TheCmd(p).source = leaf.buf
       /\ leaf.k = "Selection" =>
             /\ Cardinality(OwnCmds(p)) = 1
             /\ TheCmd(p).kind = "dispatch"

\* C11: the lowering of every expression the caller can build ends: for
\* every expression built so far evaluate_with_buffers has a result, a
\* command sequence no longer than the number of nodes of the expression;
\* and in what evaluate recorded the recursion stopped at the leaves (an
\* Identity leaf recorded nothing, a Buffer leaf one copy, a childless
\* Selection one dispatch, and nothing is recorded below a leaf) and every
\* node recorded at most one command.
C11_LoweringBounded ==
    /\ evalPc = "building" =>
          \A n \in 0..MaxN :
             Len(evaluate_with_buffers(bundle, expr, DestBuf, n, FirstTemp,
                                       <<>>).cmds) <= TreeSize(expr)
    /\ Recorded =>
          LET all == AllPaths(expr, <<>>)
          IN /\ Len(encoder) <= TreeSize(expr)
             /\ \A i \in DOMAIN encoder : encoder[i].node \in all
             /\ \A p \in all : Cardinality(OwnCmds(p)) <= 1
             /\ \A p \in LeafPaths : C11_LeafAt(p)

C11_Witness ==
    /\ evalPc = "recorded"
    /\ expr.k = "Intersection"
    /\ expr.l.k = "Selection"
    /\ expr.r.k = "Buffer"
    /\ TreeSize(expr) = 3
    /\ Len(encoder) = 3
    /\ encoder[1].kind = "dispatch"
    /\ encoder[2].kind = "copy"

\* ------------------------------------------------- the order of download
\* The device operations of one download() that returns Ok, in order.
DownloadOrder == <<"copy", "submit", "map_async", "poll", "await", "read", "unmap">>

LogHas(op) == \E i \in DOMAIN dlLog : dlLog[i] = op

\* C12: the device operations of a download() call happen in one fixed order:
\* copy recorded, then submitted, then the map request, then the poll, then
\* the await of the map result, then the read, then the unmap; the read
\* happens only when the poll succeeded and the map result was a success,
\* and a call that returned Ok has gone through all of them, unmap included.
C12_DownloadOrder ==
    /\ IsPrefix(dlLog, DownloadOrder)
    /\ LogHas("read") => (pollResult = "ok" /\ channel = "ok")
    /\ (dlPc = "returned" /\ dlResult = "Ok") =>
          (dlLog = DownloadOrder /\ stagingMap = "unmapped")

C12_Witness ==
    /\ dlPc = "returned"
    /\ dlResult = "Ok"
    /\ dlLog = DownloadOrder
    /\ dlCalls = 2

\* ------------------------------------------------- dispatches of a call
Dispatches == {i \in DOMAIN encoder : encoder[i].kind = "dispatch"}

\* The commands recorded for the nodes strictly below the node at path p.
BelowCmds(p) == SubtreeCmds(p) \ OwnCmds(p)

\* C13: evaluate records exactly one dispatch for every operation node and
\* none for any other node; the dispatch of a node comes after every command
\* recorded for its subtrees; and every dispatch, whatever the depth and the
\* kind of its node, has the grid size gaussians.len() of the call.
C13_OneDispatchPerNode ==
    Recorded =>
       /\ \A p \in OpPaths(expr, <<>>) :
             /\ Cardinality(OwnCmds(p)) = 1
             /\ OwnCmds(p) \subseteq Dispatches
             /\ \A i \in OwnCmds(p), j \in BelowCmds(p) : j < i
       /\ {encoder[i].node : i \in Dispatches} \subseteq OpPaths(expr, <<>>)
       /\ Cardinality(Dispatches) = NodeCount(expr)
       /\ \A i \in Dispatches : encoder[i].grid = gaussiansLen

C13_Witness ==
    /\ evalPc = "recorded"
    /\ gaussiansLen = 2
    /\ expr.k = "Unary"
    /\ expr.e.k = "SymmetricDifference"
    /\ Cardinality(Dispatches) = 2
    /\ encoder[Len(encoder)].node = <<>>
    /\ encoder[Len(encoder) - 1].node = <<0>>

\* ------------------------------------------------- the temporary buffers
\* What C14 says of the temporary t, allocated by the node at path t.node.
C14_OwnedAt(t) ==
    LET p == t.node
        left == SubtreeCmds(Append(p, 0))
        right == SubtreeCmds(Append(p, 1))
    IN /\ t.cap = gaussiansLen
       /\ t.id \notin CallerBufs
       /\ p \in OpPaths(expr, <<>>)
       /\ \A i \in DOMAIN encoder :
             /\ encoder[i].dest = t.id =>
                   (i \in left /\ NodeAt(expr, p).k \in BinaryKinds)
             /\ encoder[i].source = t.id =>
                   (i \in OwnCmds(p) /\ encoder[i].kind = "dispatch")
       /\ \A i \in right : ~Touches(i, t.id)
       /\ \A i \in DOMAIN encoder \ SubtreeCmds(p) : ~Touches(i, t.id)

\* C14: every temporary buffer of an evaluate call belongs to the one node
\* that allocated it: no two nodes share one, it is none of the caller's
\* buffers, its capacity is gaussians.len(), it is bound as dest (written)
\* only by commands of that node's left subtree, it is bound as source (read)
\* only by that node's own dispatch, and no command of the node's right
\* subtree or of any node outside the node's subtree touches it.
C14_TempOwnership ==
    Recorded =>
       /\ \A a, b \in DOMAIN temps :
             (a # b) => (temps[a].id # temps[b].id /\ temps[a].node # temps[b].node)
       /\ \A a \in DOMAIN temps : C14_OwnedAt(temps[a])

C14_Witness ==
    /\ evalPc = "recorded"
    /\ gaussiansLen = 2
    /\ Len(temps) = 2
    /\ temps[1].node = <<>>
    /\ temps[2].node = <<0>>
    /\ expr.k = "Difference"
    /\ expr.r.k = "Buffer"
    /\ Cardinality({i \in DOMAIN encoder : encoder[i].dest = temps[1].id}) = 2
    /\ encoder[Len(encoder)].source = temps[1].id

\* ------------------------------------------------- the generated dispatcher
\* The five primitive operations, in the order of the enum SelectionOp.
PrimitiveOps ==
    <<"Union", "Intersection", "SymmetricDifference", "Difference", "Complement">>

\* The branches of the template that the generated branches continue (each
\* generated branch starts with "else if"): one per primitive operation,
\* testing the code as_u32 writes into the op uniform.
PrimitiveBranches ==
    [j \in DOMAIN PrimitiveOps |->
        [code |-> as_u32([tag |-> PrimitiveOps[j]]), snippet |-> PrimitiveOps[j]]]

\* The whole chain of the program of build_dyn_resolver: the template with
\* the generated branches spliced in at {{custom_ops}}.
DispatcherChain(b) == PrimitiveBranches \o b.dispatcher

\* What a dispatch with the given op code runs: the first branch of the
\* if / else if chain whose test holds.
Invoked(chain, code) ==
    IF \E j \in DOMAIN chain : chain[j].code = code
    THEN chain[CHOOSE j \in DOMAIN chain :
                  /\ chain[j].code = code
                  /\ \A m \in DOMAIN chain : chain[m].code = code => j <= m].snippet
    ELSE "none"

\* SelectionBundle::custom_ops, asked for the snippet op.
ReportedCode(b, op) == b.customOps[op]

\* C15: the generated dispatcher has one branch per registered snippet, the
\* branch of the i-th snippet tests the op code custom_ops() reports for that
\* snippet, and a dispatch with the reported code invokes that snippet.
C15_Claimed ==
    (built = "Ok" /\ bCustomOps # <<>>) =>
       /\ Len(bundle.dispatcher) = Len(bCustomOps)
       /\ \A j \in DOMAIN bCustomOps :
             /\ bundle.dispatcher[j].snippet = bCustomOps[j]
             /\ bundle.dispatcher[j].code = ReportedCode(bundle, bCustomOps[j])
             /\ Invoked(DispatcherChain(bundle), ReportedCode(bundle, bCustomOps[j]))
                   = bCustomOps[j]

\* C16: no op code of a registered custom operation, as reported by
\* custom_ops() or as tested by a generated dispatcher branch, is the op
\* code as_u32 returns for one of the five primitive operations.
C16_Claimed ==
    (built = "Ok" /\ bCustomOps # <<>>) =>
       LET primitive == {as_u32([tag |-> PrimitiveOps[j]]) : j \in DOMAIN PrimitiveOps}
           custom == Range(bundle.customOps)
                        \cup {bundle.dispatcher[j].code : j \in DOMAIN bundle.dispatcher}
       IN custom \cap primitive = {}

\* ------------------------------------------------- the gaussians bind group
\* SelectionBundle::gaussians_bind_group:
\* &self.bind_groups[self.gaussians_bind_group_index()], which panics on an
\* index past the end of bind_groups.
gaussians_bind_group(b) ==
    IF gaussians_bind_group_index(b) \in 0..(b.bindGroups - 1)
    THEN [res |-> "Ok", index |-> gaussians_bind_group_index(b)]
    ELSE [res |-> "panic", index |-> -1]

\* C17: on every bundle SelectionBundle::new or build returned as Ok,
\* gaussians_bind_group() is well defined: gaussians_bind_group_index() is an
\* index into the stored bind groups.
C17_Claimed ==
    (built = "Ok" /\ bBuffers >= 0) => gaussians_bind_group(bundle).res = "Ok"

\* C18: every dispatch evaluate records on a bundle that build returned has
\* the six-slot bind group at the position gaussians_bind_group_index(), the
\* last bind group layout index, which is the gaussians_group_index constant
\* of the shader.
C18_Claimed ==
    (Recorded /\ built = "Ok" /\ bBuffers >= 0) =>
       \A i \in Dispatches :
          /\ encoder[i].bgPos = gaussians_bind_group_index(bundle)
          /\ encoder[i].bgIndex = gaussians_bind_group_index(bundle)
          /\ gaussians_bind_group_index(bundle) = bundle.layouts - 1
          /\ gaussians_bind_group_index(bundle) = bundle.groupIndexConst

\* C19: whenever a download() call has returned, with Ok or with an error,
\* the download buffer is neither mapped nor has a map request pending.
C19_Claimed ==
    dlPc = "returned" => stagingMap = "unmapped"
====
